---- MODULE Spec2Model ----
(***************************************************************************)
(* Vote ledger, leaderboard and election lifecycle of the Digital Voting   *)
(* System backend: castVote (controllers/voteController.js), and           *)
(* buildLeaderboard / publishResults (controllers/resultsController.js),   *)
(* over the Election documents of models/Election.js.                      *)
(*                                                                         *)
(* Every `await` of a handler is a suspension point, so a handler is a     *)
(* chain of steps, one per awaited store operation; steps of different     *)
(* requests interleave freely.  A store operation may also reject, which   *)
(* sends the handler to its catch block (HTTP 500).  A rejection before    *)
(* the handler's write leaves nothing behind but the 500 answer; the model *)
(* has the rejections after the write, which find the write committed.     *)
(***************************************************************************)
EXTENDS Integers, Sequences, FiniteSets, Bags, TLC

\* ---------------------------------------------------------------- bounds
MaxCasts == 2        \* castVote requests over a behaviour
MaxInFlight == 2     \* castVote requests suspended at an await at once
MaxPublish == 1      \* publishResults requests over a behaviour
MaxRepublish == 2    \* the same, where an election is published again

\* ------------------------------------------------------------ the data
Voters == {"v1", "v2"}

\* Election documents that exist in the store; "E0" is a well-formed id
\* that resolves to no document.
ExistingElections == {"E1"}
ElectionIds == ExistingElections \cup {"E0"}

\* Candidate documents ("candidates" collection): each belongs to one
\* election.  CandidateOrder is the order of their creation.  "X" is a
\* well-formed id that resolves to no Candidate document.
CandidateOrder == <<"A", "B">>
Candidates == {CandidateOrder[i] : i \in 1..Len(CandidateOrder)}
CandidateElection == [c \in Candidates |-> "E1"]
CandidateIds == Candidates \cup {"X"}

\* Requests to POST /vote/cast: the authenticated voter, and the
\* electionId and candidateId of the body.
CastInputs ==
    { <<"v1", "E1", "A">>, <<"v1", "E1", "X">>, <<"v2", "E1", "B">>,
      <<"v1", "E0", "A">> }

\* socket.io clients connected to the server.
Sockets == {"s1"}

Null == "null"

VARIABLES
    elections,   \* Election documents: id -> [isActive]
    ledger,      \* "votes" collection, in insertion order
    reqs,        \* castVote requests suspended at an await (a bag)
    lastResp,    \* the castVote request answered last, with its response
    casts,       \* castVote requests received so far
    pubs,        \* publishResults requests suspended at an await (a bag)
    lastPub,     \* the publishResults request answered last
    publishes,   \* publishResults requests received so far
    events,      \* socket.io emits, in emission order
    published,   \* elections whose publishResults save() has completed
    pastEnd,     \* elections whose endDate lies before the wall clock
    natural,     \* the order the store returns Candidate documents in
    lastQuery,   \* the getLeaderboard / getResults request answered last
    joined,      \* <<socket, room>>: the socket has joined the room
    received,    \* socket -> the positions in events of the emits it got
    pull         \* the leaderboard pull whose aggregation is under way

vars == <<elections, ledger, reqs, lastResp, casts, pubs, lastPub, publishes,
          events, published, pastEnd, natural, lastQuery, joined, received,
          pull>>

\* The suspended requests b with request r added, removed, or replaced by
\* its next stage r2.
Add(b, r) == b (+) SetToBag({r})
Remove(b, r) == b (-) SetToBag({r})
Replace(b, r, r2) == Add(Remove(b, r), r2)

\* ------------------------------------------------------- Election model
\* electionSchema: isActive defaults to true.  endDate is required and is
\* never reassigned; its order to the wall clock is the variable pastEnd.
NewElection == [isActive |-> TRUE]

\* The paths of electionSchema the model follows.  status and publishedAt
\* are not paths of the schema.
SchemaPaths == {"isActive"}

\* election.save(): the schema is strict, so of the fields of the document
\* those that are paths of the schema are written.
Save(doc) == [f \in (DOMAIN doc) \cap SchemaPaths |-> doc[f]]

\* The publishedAt of the stored Election document, or null.
PublishedAt(e) ==
    IF "publishedAt" \in DOMAIN elections[e] THEN elections[e].publishedAt
    ELSE Null

\* Election.findById(id): the document, or null.
ElectionFindById(id) == IF id \in ExistingElections THEN id ELSE Null

\* The null check lost: every id is taken to resolve.
ElectionMissing_Never(election) == FALSE

\* `!election` after findById.
ElectionMissing(election) == election = Null

\* Lifecycle state of an election as the spec names it, read off the
\* document and the clock: Published once publishResults has saved it,
\* Closed when ended explicitly (isActive false) or its endDate has passed.
\* new Date(election.endDate) < now
EndDatePassed(e) == e \in pastEnd
LifecycleState(e) ==
    IF e \in published THEN "Published"
    ELSE IF ~elections[e].isActive \/ EndDatePassed(e) THEN "Closed"
    ELSE "Open"

\* ----------------------------------------------------------- Vote model
NewVote(v, c, e) == [voter |-> v, candidate |-> c, election |-> e]

\* The filter naming the wrong field: the election id is matched against
\* the candidate path.
VoteFindOne_WrongField(v, e) ==
    \E i \in 1..Len(ledger) : ledger[i].voter = v /\ ledger[i].candidate = e

\* Vote.findOne({ voter, election }): does a matching document exist.
VoteFindOne(v, e) ==
    \E i \in 1..Len(ledger) : ledger[i].voter = v /\ ledger[i].election = e

\* The votes collection without the index: no insert is refused.
UniqueIndexViolated_NoIndex(doc) == FALSE

\* The unique index on (voter, election) of the votes collection.
UniqueIndexViolated(doc) ==
    \E i \in 1..Len(ledger) :
        ledger[i].voter = doc.voter /\ ledger[i].election = doc.election

\* A committed Vote of voter v in election e exists.
HasVoted(v, e) ==
    \E i \in 1..Len(ledger) : ledger[i].voter = v /\ ledger[i].election = e

\* Number of committed Vote rows of an election.
VoteRows(e) == Cardinality({i \in 1..Len(ledger) : ledger[i].election = e})

\* ------------------------------------------------------------- sorting
\* $sort by a count, descending.  cnt maps a candidate id to its count.
\* The pipelines sort by the count alone, so ids with equal counts come out
\* in the order the stage received them, which is the store's (natural).
RECURSIVE InsertDesc(_, _, _)
InsertDesc(c, s, cnt) ==
    IF s = <<>> THEN <<c>>
    ELSE IF cnt[c] > cnt[Head(s)] THEN <<c>> \o s
    ELSE <<Head(s)>> \o InsertDesc(c, Tail(s), cnt)

RECURSIVE SortDesc(_, _)
SortDesc(s, cnt) ==
    IF s = <<>> THEN <<>>
    ELSE InsertDesc(s[Len(s)], SortDesc(SubSeq(s, 1, Len(s) - 1), cnt), cnt)

\* rows.reduce((s, r) => s + (r.totalVotes || 0), 0)
RECURSIVE SumTotalVotes(_)
SumTotalVotes(rows) ==
    IF rows = <<>> THEN 0
    ELSE Head(rows).totalVotes + SumTotalVotes(Tail(rows))

\* totalVotes ? (r.totalVotes / totalVotes) * 100 : 0, as the fraction
\* num / den.
Percent(votes, totalVotes) ==
    IF totalVotes # 0 THEN [num |-> votes * 100, den |-> totalVotes]
    ELSE [num |-> 0, den |-> 1]

\* --------------------------------------------------------- aggregations
\* Votes of election e that name candidate c.
CountVotes(c, e) ==
    Cardinality({i \in 1..Len(ledger) :
                    ledger[i].candidate = c /\ ledger[i].election = e})

\* The pipeline started from the votes: a candidate without votes has no
\* row.
BuildRows_FromVotes(e) ==
    LET cnt == [c \in CandidateIds |-> CountVotes(c, e)]
        voted(c) == CandidateElection[c] = e /\ cnt[c] > 0
        ids == SortDesc(SelectSeq(natural, voted), cnt)
    IN [i \in 1..Len(ids) |-> [candidateId |-> ids[i], totalVotes |-> cnt[ids[i]]]]

\* The pipeline without its $sort stage: the rows in the store's order.
BuildRows_Unsorted(e) ==
    LET ofElection(c) == CandidateElection[c] = e
        cnt == [c \in CandidateIds |-> CountVotes(c, e)]
        ids == SelectSeq(natural, ofElection)
    IN [i \in 1..Len(ids) |-> [candidateId |-> ids[i], totalVotes |-> cnt[ids[i]]]]

\* The Candidate.aggregate pipeline of buildLeaderboard: the Candidate
\* documents of the election, each with the count of the election's votes
\* that name it, sorted by that count descending.
BuildRows(e) ==
    LET ofElection(c) == CandidateElection[c] = e
        cnt == [c \in CandidateIds |-> CountVotes(c, e)]
        ids == SortDesc(SelectSeq(natural, ofElection), cnt)
    IN [i \in 1..Len(ids) |-> [candidateId |-> ids[i], totalVotes |-> cnt[ids[i]]]]

\* buildLeaderboard(electionId)
BuildLeaderboard(e) ==
    LET rows == BuildRows(e)
        totalVotes == SumTotalVotes(rows)
    IN [totalVotes |-> totalVotes,
        leaderboard |-> [i \in 1..Len(rows) |->
            [candidateId |-> rows[i].candidateId,
             totalVotes |-> rows[i].totalVotes,
             percent |-> Percent(rows[i].totalVotes, totalVotes)]]]

\* The Vote.aggregate pipeline of castVote: the election's votes grouped by
\* candidate, sorted by count descending, joined to the Candidate documents
\* (a group whose candidate id matches no document is dropped by $unwind).
VoteAggregate(e) ==
    LET cnt == [c \in CandidateIds |-> CountVotes(c, e)]
        voted(c) == cnt[c] > 0
        ids == SortDesc(SelectSeq(natural, voted), cnt)
    IN [i \in 1..Len(ids) |-> [candidate |-> ids[i], votes |-> cnt[ids[i]]]]

\* ------------------------------------------------------------- socket.io
\* io.to(room).emit(...), n times in a row: each socket that has joined the
\* room gets the n emits, which take the next n positions of events.
Deliver(room, n) ==
    [s \in Sockets |->
        IF <<s, room>> \in joined
        THEN received[s] \cup ((Len(events) + 1)..(Len(events) + n))
        ELSE received[s]]

\* ------------------------------------------------------------ castVote
\* res.status(code).json({ message }): the request is answered.
Respond(r, code, msg) == [r EXCEPT !.pc = "done", !.status = code, !.message = msg]

\* Lines 10-15: the request arrives and Election.findById resolves.
CastStart(v, e, c) ==
    /\ casts < MaxCasts
    /\ BagCardinality(reqs) < MaxInFlight
    /\ casts' = casts + 1
    /\ LET r == [voter |-> v, election |-> e, candidate |-> c,
                 pc |-> "findVote", status |-> 0, message |-> "",
                 inserted |-> FALSE, emitted |-> FALSE,
                 votedAtStart |-> HasVoted(v, e),
                 stateAtStart |-> IF e \in ExistingElections
                                  THEN LifecycleState(e) ELSE "None"]
           election == ElectionFindById(e)
       IN IF ElectionMissing(election)
          THEN /\ lastResp' = Respond(r, 404, "Election not found")
               /\ UNCHANGED reqs
          ELSE /\ reqs' = Add(reqs, r)
               /\ UNCHANGED lastResp
    /\ UNCHANGED <<elections, ledger, pubs, lastPub, publishes, events, published, pastEnd,
                   natural, lastQuery, joined, received, pull>>

\* The board broadcast before the duplicate check answers.
CastFindVote_EmitsFirst(r) ==
    /\ r \in BagToSet(reqs)
    /\ r.pc = "findVote"
    /\ IF VoteFindOne(r.voter, r.election)
       THEN /\ events' = Append(events,
                   [room |-> r.election, name |-> "leaderboardUpdate",
                    board |-> VoteAggregate(r.election)])
            /\ received' = Deliver(r.election, 1)
            /\ lastResp' = Respond(r, 400, "You already voted")
            /\ reqs' = Remove(reqs, r)
       ELSE /\ reqs' = Replace(reqs, r, [r EXCEPT !.pc = "create"])
            /\ UNCHANGED <<lastResp, events, received>>
    /\ UNCHANGED <<elections, ledger, casts, pubs, lastPub, publishes, published, pastEnd,
                   natural, lastQuery, joined, pull>>

\* Lines 17-19: Vote.findOne resolves.
CastFindVote(r) ==
    /\ r \in BagToSet(reqs)
    /\ r.pc = "findVote"
    /\ IF VoteFindOne(r.voter, r.election)
       THEN /\ lastResp' = Respond(r, 400, "You already voted")
            /\ reqs' = Remove(reqs, r)
       ELSE /\ reqs' = Replace(reqs, r, [r EXCEPT !.pc = "create"])
            /\ UNCHANGED lastResp
    /\ UNCHANGED <<elections, ledger, casts, pubs, lastPub, publishes, events, published, pastEnd,
                   natural, lastQuery, joined, received, pull>>

\* The insert done as an upsert on (voter, election): a second vote of the
\* pair overwrites the first.
CastCreate_Upserts(r) ==
    /\ r \in BagToSet(reqs)
    /\ r.pc = "create"
    /\ LET doc == NewVote(r.voter, r.candidate, r.election)
           old == {i \in 1..Len(ledger) :
                      ledger[i].voter = doc.voter /\ ledger[i].election = doc.election}
       IN /\ ledger' = IF old = {} THEN Append(ledger, doc)
                       ELSE [i \in 1..Len(ledger) |->
                                IF i \in old THEN doc ELSE ledger[i]]
          /\ reqs' = Replace(reqs, r,
                         [r EXCEPT !.pc = "aggregate", !.inserted = TRUE])
          /\ UNCHANGED lastResp
    /\ UNCHANGED <<elections, casts, pubs, lastPub, publishes, events, published, pastEnd,
                   natural, lastQuery, joined, received, pull>>

\* Lines 21-26: Vote.create resolves, or rejects with a duplicate key
\* error and the catch block answers 500.
CastCreate(r) ==
    /\ r \in BagToSet(reqs)
    /\ r.pc = "create"
    /\ LET doc == NewVote(r.voter, r.candidate, r.election)
       IN IF UniqueIndexViolated(doc)
          THEN /\ lastResp' = Respond(r, 500, "E11000 duplicate key")
               /\ reqs' = Remove(reqs, r)
               /\ UNCHANGED ledger
          ELSE /\ ledger' = Append(ledger, doc)
               /\ reqs' = Replace(reqs, r,
                              [r EXCEPT !.pc = "aggregate", !.inserted = TRUE])
               /\ UNCHANGED lastResp
    /\ UNCHANGED <<elections, casts, pubs, lastPub, publishes, events, published, pastEnd,
                   natural, lastQuery, joined, received, pull>>

\* Lines 28-47: Vote.aggregate resolves, the leaderboard is emitted to the
\* election's room and the handler answers 201; or the aggregate rejects
\* and the catch block answers 500.
CastAggregate(r, ok) ==
    /\ r \in BagToSet(reqs)
    /\ r.pc = "aggregate"
    /\ IF ~ok
       THEN /\ lastResp' = Respond(r, 500, "StorageUnavailable")
            /\ UNCHANGED <<events, received>>
       ELSE /\ events' = Append(events,
                   [room |-> r.election, name |-> "leaderboardUpdate",
                    board |-> VoteAggregate(r.election)])
            /\ received' = Deliver(r.election, 1)
            /\ lastResp' = [Respond(r, 201, "Vote cast successfully")
                               EXCEPT !.emitted = TRUE]
    /\ reqs' = Remove(reqs, r)
    /\ UNCHANGED <<elections, ledger, casts, pubs, lastPub, publishes, published, pastEnd,
                   natural, lastQuery, joined, pull>>

\* Lines 30-42, at the store: the aggregation runs and reads the votes.
\* Its result travels back to the handler, which is still suspended at the
\* await.  (CastAggregate is the case where the result is received at
\* once.)
CastAggregateRead(r) ==
    /\ r \in BagToSet(reqs)
    /\ r.pc = "aggregate"
    /\ reqs' = Replace(reqs, r,
                   [f \in DOMAIN r \cup {"board"} |->
                       IF f = "board" THEN VoteAggregate(r.election)
                       ELSE IF f = "pc" THEN "emit" ELSE r[f]])
    /\ UNCHANGED <<elections, ledger, lastResp, casts, pubs, lastPub, publishes,
                   events, published, pastEnd, natural, lastQuery, joined,
                   received, pull>>

\* Lines 45-47: the handler resumes with the result of the aggregation,
\* emits it to the room of the election and answers 201.
CastEmit(r) ==
    /\ r \in BagToSet(reqs)
    /\ r.pc = "emit"
    /\ events' = Append(events,
           [room |-> r.election, name |-> "leaderboardUpdate", board |-> r.board])
    /\ received' = Deliver(r.election, 1)
    /\ lastResp' = [Respond([f \in DOMAIN r \ {"board"} |-> r[f]],
                            201, "Vote cast successfully")
                       EXCEPT !.emitted = TRUE]
    /\ reqs' = Remove(reqs, r)
    /\ UNCHANGED <<elections, ledger, casts, pubs, lastPub, publishes, published,
                   pastEnd, natural, lastQuery, joined, pull>>

\* ------------------------------------------------------- the lifecycle
\* PUT /election/:id/end: the election is ended explicitly.
EndElection(e) ==
    /\ e \in ExistingElections
    /\ elections[e].isActive
    /\ elections' = [elections EXCEPT ![e].isActive = FALSE]
    /\ UNCHANGED <<ledger, reqs, lastResp, casts, pubs, lastPub, publishes, events, published, pastEnd,
                   natural, lastQuery, joined, received, pull>>

\* The wall clock (new Date()) passes the endDate of an election.
ClockPassesEndDate(e) ==
    /\ e \in ExistingElections
    /\ e \notin pastEnd
    /\ pastEnd' = pastEnd \cup {e}
    /\ UNCHANGED <<elections, ledger, reqs, lastResp, casts, pubs, lastPub, publishes, events, published,
                   natural, lastQuery, joined, received, pull>>

\* ------------------------------------------------------ publishResults
\* res.status(code).json({ message }): the request is answered.
PubRespond(p, code, msg) == [p EXCEPT !.pc = "done", !.status = code, !.message = msg]

\* The handler writing isActive = true and nothing else: the election is
\* reopened instead of completed.
PublishStart_Reopens(e) ==
    /\ publishes < MaxPublish
    /\ publishes' = publishes + 1
    /\ LET p == [election |-> e, pc |-> "build", status |-> 0, message |-> "",
                 saved |-> FALSE]
           election == ElectionFindById(e)
       IN IF ElectionMissing(election)
          THEN /\ lastPub' = PubRespond(p, 404, "Election not found")
               /\ UNCHANGED <<pubs, elections, published>>
          ELSE /\ elections' = [elections EXCEPT ![e].isActive = TRUE]
               /\ pubs' = Add(pubs, [p EXCEPT !.saved = TRUE])
               /\ UNCHANGED <<lastPub, published>>
    /\ UNCHANGED <<ledger, reqs, lastResp, casts, events, pastEnd,
                   natural, lastQuery, joined, received, pull>>

\* Lines 254-265: the request arrives, Election.findById resolves (the
\* document exists or not, which no operation changes), the document is
\* marked completed, stamped with the time of the call, and save()
\* resolves.  endDate is required, so it is already set.  The handler
\* takes at most `most` requests over a behaviour.
PublishRequest(e, most) ==
    /\ publishes < most
    /\ publishes' = publishes + 1
    /\ LET p == [election |-> e, pc |-> "build", status |-> 0, message |-> "",
                 saved |-> FALSE]
           election == ElectionFindById(e)
           doc == [isActive |-> FALSE, status |-> "completed",
                   publishedAt |-> publishes + 1]
       IN IF ElectionMissing(election)
          THEN /\ lastPub' = PubRespond(p, 404, "Election not found")
               /\ UNCHANGED <<pubs, elections, published>>
          ELSE /\ elections' = [elections EXCEPT ![e] = Save(doc)]
               /\ published' = published \cup {e}
               /\ pubs' = Add(pubs, [p EXCEPT !.saved = TRUE])
               /\ UNCHANGED lastPub
    /\ UNCHANGED <<ledger, reqs, lastResp, casts, events, pastEnd,
                   natural, lastQuery, joined, received, pull>>

PublishStart(e) == PublishRequest(e, MaxPublish)

\* Lines 267-278: buildLeaderboard resolves and the final board is
\* broadcast as leaderboard:update, then results:published.
PublishBuild(p, ok) ==
    /\ p \in BagToSet(pubs)
    /\ p.pc = "build"
    /\ LET lb == BuildLeaderboard(p.election)
       IN IF ~ok
          THEN /\ lastPub' = PubRespond(p, 500, "Server Error")
               /\ UNCHANGED <<events, received>>
          ELSE /\ events' = events \o
                     << [room |-> p.election, name |-> "leaderboard:update",
                         board |-> lb],
                        [room |-> p.election, name |-> "results:published",
                         board |-> lb] >>
               /\ received' = Deliver(p.election, 2)
               /\ lastPub' = PubRespond(p, 200, "Results published")
    /\ pubs' = Remove(pubs, p)
    /\ UNCHANGED <<elections, ledger, reqs, lastResp, casts, publishes, published, pastEnd,
                   natural, lastQuery, joined, pull>>

\* ------------------------------------------------------------- queries
\* isElectionCompleted(election), for a document read by findById().lean().
\* status and isCompleted are not paths of electionSchema, so the document
\* has neither and the function falls through to endDate and isActive.
IsElectionCompleted(election) ==
    IF election = Null THEN FALSE
    ELSE IF EndDatePassed(election) THEN TRUE
    ELSE elections[election].isActive = FALSE

\* res.status(code).json(...) of a query: op is the handler, body the data
\* of a 200 answer.  ledgerLen and state are the size of the ledger and the
\* lifecycle state of the election when the query ran.
QueryResponse(op, e, code, msg, body) ==
    [op |-> op, election |-> e, pc |-> "done", status |-> code,
     message |-> msg, body |-> body, ledgerLen |-> Len(ledger),
     state |-> IF e \in ExistingElections THEN LifecycleState(e) ELSE "None"]

\* GET /api/results/leaderboard/:electionId.  Election.findById reads only
\* whether the document exists, which no operation changes, so the
\* handler's two reads are one step.
GetLeaderboard(e) ==
    /\ LET election == ElectionFindById(e)
       IN IF ElectionMissing(election)
          THEN lastQuery' = QueryResponse("getLeaderboard", e, 404,
                                          "Election not found", Null)
          ELSE lastQuery' = QueryResponse("getLeaderboard", e, 200, "",
                                          BuildLeaderboard(e))
    /\ UNCHANGED <<elections, ledger, reqs, lastResp, casts, pubs, lastPub,
                   publishes, events, published, pastEnd, natural, joined,
                   received, pull>>

\* GET /api/results/final/:electionId.
GetResults(e) ==
    /\ LET election == ElectionFindById(e)
       IN IF ElectionMissing(election)
          THEN lastQuery' = QueryResponse("getResults", e, 404,
                                          "Election not found", Null)
          ELSE IF ~IsElectionCompleted(election)
          THEN lastQuery' = QueryResponse("getResults", e, 400,
                                          "Election not completed yet", Null)
          ELSE lastQuery' = QueryResponse("getResults", e, 200, "",
                                          BuildLeaderboard(e))
    /\ UNCHANGED <<elections, ledger, reqs, lastResp, casts, pubs, lastPub,
                   publishes, events, published, pastEnd, natural, joined,
                   received, pull>>

\* ---------------------------------------------- the pull, stage by stage
\* buildLeaderboard is one Candidate.aggregate whose $lookup stage runs its
\* sub-pipeline on the votes collection once for each Candidate document.
\* The aggregation is not run in a transaction or with a snapshot read
\* concern, so each run of the sub-pipeline reads the votes as they are
\* when it runs.  GetLeaderboard above is the pull that no write
\* interleaves with.
\*
\* The pull starts: $match reads the Candidate documents of the election.
\* startLen is the size of the ledger at that moment.
PullStart(e) ==
    /\ pull.pc \in {"none", "done"}
    /\ e \in ExistingElections
    /\ LET ofElection(c) == CandidateElection[c] = e
       IN pull' = [pc |-> "lookup", election |-> e, startLen |-> Len(ledger),
                   todo |-> SelectSeq(natural, ofElection), rows |-> <<>>]
    /\ UNCHANGED <<elections, ledger, reqs, lastResp, casts, pubs, lastPub,
                   publishes, events, published, pastEnd, natural, lastQuery,
                   joined, received>>

\* $lookup and $addFields for the next Candidate document: the count of
\* the votes that name it.
PullLookup ==
    /\ pull.pc = "lookup"
    /\ pull.todo # <<>>
    /\ LET c == Head(pull.todo)
       IN pull' = [pull EXCEPT
                      !.todo = Tail(pull.todo),
                      !.rows = Append(pull.rows,
                          [candidateId |-> c,
                           totalVotes |-> CountVotes(c, pull.election)])]
    /\ UNCHANGED <<elections, ledger, reqs, lastResp, casts, pubs, lastPub,
                   publishes, events, published, pastEnd, natural, lastQuery,
                   joined, received>>

\* $sort, then lines 196-199: the board is returned.  endLen is the size of
\* the ledger at that moment.
PullEnd ==
    /\ pull.pc = "lookup"
    /\ pull.todo = <<>>
    /\ LET cnt == [c \in CandidateIds |->
                      IF \E i \in DOMAIN pull.rows : pull.rows[i].candidateId = c
                      THEN pull.rows[CHOOSE i \in DOMAIN pull.rows :
                                        pull.rows[i].candidateId = c].totalVotes
                      ELSE 0]
           ids == SortDesc([i \in DOMAIN pull.rows |-> pull.rows[i].candidateId], cnt)
           rows == [i \in 1..Len(ids) |-> [candidateId |-> ids[i], totalVotes |-> cnt[ids[i]]]]
           totalVotes == SumTotalVotes(rows)
       IN pull' = [pc |-> "done", election |-> pull.election,
                   startLen |-> pull.startLen, endLen |-> Len(ledger),
                   body |-> [totalVotes |-> totalVotes,
                             leaderboard |-> [i \in 1..Len(rows) |->
                                 [candidateId |-> rows[i].candidateId,
                                  totalVotes |-> rows[i].totalVotes,
                                  percent |-> Percent(rows[i].totalVotes, totalVotes)]]]]
    /\ UNCHANGED <<elections, ledger, reqs, lastResp, casts, pubs, lastPub,
                   publishes, events, published, pastEnd, natural, lastQuery,
                   joined, received>>

\* The orders a set of documents can be returned in.
Orders(S) ==
    {p \in [1..Cardinality(S) -> S] : \A i, j \in DOMAIN p : p[i] = p[j] => i = j}

\* The store comes to return the Candidate documents in another order: the
\* order of documents with equal sort keys is not fixed from one execution
\* of a pipeline to the next.
StoreReorders ==
    /\ \E p \in Orders(Candidates) : p # natural /\ natural' = p
    /\ UNCHANGED <<elections, ledger, reqs, lastResp, casts, pubs, lastPub,
                   publishes, events, published, pastEnd, lastQuery, joined,
                   received, pull>>

\* socket.on("joinElection", electionId => socket.join(electionId))
JoinElection(s, e) ==
    /\ <<s, e>> \notin joined
    /\ joined' = joined \cup {<<s, e>>}
    /\ UNCHANGED <<elections, ledger, reqs, lastResp, casts, pubs, lastPub,
                   publishes, events, published, pastEnd, natural, lastQuery,
                   received, pull>>

\* ------------------------------------------------------ specification
\* No request answered yet.
NoResponse == [pc |-> "none"]

Init ==
    /\ elections = [e \in ExistingElections |-> NewElection]
    /\ ledger = <<>>
    /\ reqs = EmptyBag
    /\ lastResp = NoResponse
    /\ casts = 0
    /\ pubs = EmptyBag
    /\ lastPub = NoResponse
    /\ publishes = 0
    /\ events = <<>>
    /\ published = {}
    /\ pastEnd = {}
    /\ natural = CandidateOrder
    /\ lastQuery = NoResponse
    /\ joined = {}
    /\ received = [s \in Sockets |-> {}]
    /\ pull = NoResponse

Next ==
    \/ \E in \in CastInputs : CastStart(in[1], in[2], in[3])
    \/ \E r \in BagToSet(reqs) : CastFindVote(r)
    \/ \E r \in BagToSet(reqs) : CastCreate(r)
    \/ \E r \in BagToSet(reqs), ok \in BOOLEAN : CastAggregate(r, ok)
    \/ \E e \in ExistingElections : EndElection(e)
    \/ \E e \in ExistingElections : ClockPassesEndDate(e)
    \/ \E e \in ElectionIds : PublishStart(e)
    \/ \E p \in BagToSet(pubs), ok \in BOOLEAN : PublishBuild(p, ok)

Spec == Init /\ [][Next]_vars

\* The handlers of Next with the queries, over a store whose order of
\* equal-keyed documents varies.
NextQuery ==
    \/ Next
    \/ \E e \in ElectionIds : GetLeaderboard(e)
    \/ \E e \in ElectionIds : GetResults(e)
    \/ StoreReorders

SpecQuery == Init /\ [][NextQuery]_vars

\* The handlers that write the ledger or run buildLeaderboard, over a
\* store whose order of equal-keyed documents varies.
NextBoard ==
    \/ \E in \in CastInputs : CastStart(in[1], in[2], in[3])
    \/ \E r \in BagToSet(reqs) : CastFindVote(r)
    \/ \E r \in BagToSet(reqs) : CastCreate(r)
    \/ \E r \in BagToSet(reqs), ok \in BOOLEAN : CastAggregate(r, ok)
    \/ \E e \in ElectionIds : PublishStart(e)
    \/ \E p \in BagToSet(pubs), ok \in BOOLEAN : PublishBuild(p, ok)
    \/ StoreReorders

SpecBoard == Init /\ [][NextBoard]_vars

\* The handlers of Next where publishResults is called again for an
\* election.
NextPublish ==
    \/ \E in \in CastInputs : CastStart(in[1], in[2], in[3])
    \/ \E r \in BagToSet(reqs) : CastFindVote(r)
    \/ \E r \in BagToSet(reqs) : CastCreate(r)
    \/ \E r \in BagToSet(reqs), ok \in BOOLEAN : CastAggregate(r, ok)
    \/ \E e \in ExistingElections : EndElection(e)
    \/ \E e \in ExistingElections : ClockPassesEndDate(e)
    \/ \E e \in ElectionIds : PublishRequest(e, MaxRepublish)
    \/ \E p \in BagToSet(pubs), ok \in BOOLEAN : PublishBuild(p, ok)

SpecPublish == Init /\ [][NextPublish]_vars

\* castVote requests whose aggregations return to their handlers in any
\* order.
NextRace ==
    \/ \E in \in CastInputs : CastStart(in[1], in[2], in[3])
    \/ \E r \in BagToSet(reqs) : CastFindVote(r)
    \/ \E r \in BagToSet(reqs) : CastCreate(r)
    \/ \E r \in BagToSet(reqs) : CastAggregateRead(r)
    \/ \E r \in BagToSet(reqs) : CastEmit(r)

SpecRace == Init /\ [][NextRace]_vars

\* castVote requests with a leaderboard pull racing them.
NextPull ==
    \/ \E in \in CastInputs : CastStart(in[1], in[2], in[3])
    \/ \E r \in BagToSet(reqs) : CastFindVote(r)
    \/ \E r \in BagToSet(reqs) : CastCreate(r)
    \/ \E r \in BagToSet(reqs), ok \in BOOLEAN : CastAggregate(r, ok)
    \/ \E e \in ExistingElections : PullStart(e)
    \/ PullLookup
    \/ PullEnd

SpecPull == Init /\ [][NextPull]_vars

\* Spec where a handler that can take its next step takes it: the event
\* loop runs every continuation whose awaited operation has settled.
\* Requests arrive or not.
SpecFair ==
    /\ Spec
    /\ WF_vars(\E r \in BagToSet(reqs) : CastFindVote(r))
    /\ WF_vars(\E r \in BagToSet(reqs) : CastCreate(r))
    /\ WF_vars(\E r \in BagToSet(reqs), ok \in BOOLEAN : CastAggregate(r, ok))
    /\ WF_vars(\E p \in BagToSet(pubs), ok \in BOOLEAN : PublishBuild(p, ok))

\* The handlers of Next with the socket.io clients joining rooms.
NextRoom ==
    \/ Next
    \/ \E s \in Sockets, e \in ElectionIds : JoinElection(s, e)

SpecRoom == Init /\ [][NextRoom]_vars

\* ------------------------------------------------------------ the claims
\* The error kind of a response: 404 is ElectionNotFound, 400 with "You
\* already voted" is DuplicateVote, 500 is a server error, 201 is success.
ErrorKind(r) ==
    IF r.status = 201 THEN "None"
    ELSE IF r.status = 404 THEN "ElectionNotFound"
    ELSE IF r.status = 400 /\ r.message = "You already voted" THEN "DuplicateVote"
    ELSE "ServerError"

Answered == lastResp.pc = "done"

\* The store refused to serve the answered request.
Outage == lastResp.message = "StorageUnavailable"

\* Votes of voter v in election e.
PairRows(v, e) ==
    Cardinality({i \in 1..Len(ledger) :
                    ledger[i].voter = v /\ ledger[i].election = e})

\* The castVote requests in the system: suspended, or answered last.
Requests ==
    BagToSet(reqs) \cup (IF Answered THEN {lastResp} ELSE {})

\* C1: every castVote on an Open election that the store served is answered
\* with success or with DuplicateVote, and exactly one vote of its
\* (voter, election) pair is committed: of the calls of a pair exactly one
\* succeeds and every other fails with DuplicateVote.
C1_ExactlyOneSucceeds ==
    (Answered /\ lastResp.stateAtStart = "Open" /\ ~Outage) =>
        /\ ErrorKind(lastResp) \in {"None", "DuplicateVote"}
        /\ PairRows(lastResp.voter, lastResp.election) = 1

\* C2: in every reachable state the ledger holds at most one Vote for each
\* (voterId, electionId).  The handlers share nothing but the store, so the
\* interleaved requests are those of any number of server processes.
C2_OneVotePerPair ==
    \A i, j \in 1..Len(ledger) :
        (ledger[i].voter = ledger[j].voter /\ ledger[i].election = ledger[j].election)
            => i = j

\* C2 witness: two requests of one pair both passed the findOne check, one
\* committed and the other's insert was refused.
C2_Witness ==
    /\ Answered
    /\ lastResp.message = "E11000 duplicate key"
    /\ PairRows(lastResp.voter, lastResp.election) = 1

\* C3: a castVote received after a vote of the same voter in the same
\* election was committed is answered DuplicateVote, commits nothing and
\* emits nothing, whatever candidate it names.
C3_LaterCastIsDuplicate ==
    /\ \A r \in Requests : r.votedAtStart => ~r.inserted /\ ~r.emitted
    /\ (Answered /\ lastResp.votedAtStart) => ErrorKind(lastResp) = "DuplicateVote"

\* C3 witness: a voter with a committed vote cast again for another
\* candidate and was answered.
C3_Witness ==
    /\ Answered
    /\ lastResp.votedAtStart
    /\ \E i \in 1..Len(ledger) :
          /\ ledger[i].voter = lastResp.voter
          /\ ledger[i].election = lastResp.election
          /\ ledger[i].candidate # lastResp.candidate

\* C4: a castVote received once its election is Published commits no Vote
\* and, when the store serves it, is answered ElectionNotActive.
C4_NoVoteAfterPublished ==
    /\ \A r \in Requests : r.stateAtStart = "Published" => ~r.inserted
    /\ (Answered /\ lastResp.stateAtStart = "Published" /\ ~Outage) =>
          ErrorKind(lastResp) = "ElectionNotActive"

\* C5: a castVote received while its election is Closed (ended explicitly
\* or past its endDate) commits no Vote and, when the store serves it, is
\* answered ElectionNotActive.
C5_NoVoteWhenClosed ==
    /\ \A r \in Requests : r.stateAtStart = "Closed" => ~r.inserted
    /\ (Answered /\ lastResp.stateAtStart = "Closed" /\ ~Outage) =>
          ErrorKind(lastResp) = "ElectionNotActive"

\* The candidate id names a Candidate document of the election.
CandidateOf(c, e) == c \in Candidates /\ CandidateElection[c] = e

\* C6: every Vote in the ledger names a candidate of its own election, and
\* a castVote naming any other candidate that the store serves is answered
\* InvalidCandidate.
C6_VotesNameOwnCandidates ==
    /\ \A i \in 1..Len(ledger) : CandidateOf(ledger[i].candidate, ledger[i].election)
    /\ (Answered /\ lastResp.stateAtStart = "Open" /\ ~lastResp.votedAtStart
           /\ ~CandidateOf(lastResp.candidate, lastResp.election) /\ ~Outage) =>
          ErrorKind(lastResp) = "InvalidCandidate"

FirstViolated(r) ==
    IF r.election \notin ExistingElections THEN "ElectionNotFound"
    ELSE IF r.stateAtStart # "Open" THEN "ElectionNotActive"
    ELSE IF ~CandidateOf(r.candidate, r.election) THEN "InvalidCandidate"
    ELSE IF r.votedAtStart THEN "DuplicateVote"
    ELSE "None"

\* Number of preconditions the request violated when it was received.
ViolatedCount(r) ==
    IF r.election \notin ExistingElections THEN 1
    ELSE (IF r.stateAtStart # "Open" THEN 1 ELSE 0)
         + (IF ~CandidateOf(r.candidate, r.election) THEN 1 ELSE 0)
         + (IF r.votedAtStart THEN 1 ELSE 0)

\* C8: a castVote that violates several preconditions at once and that the
\* store serves is answered with the error kind of the first one violated.
C8_FirstViolatedWins ==
    (Answered /\ ViolatedCount(lastResp) > 1 /\ ~Outage) =>
        ErrorKind(lastResp) = FirstViolated(lastResp)

\* C9: a castVote answered with an error of any kind committed no Vote.
C9_ErrorCommitsNothing ==
    (Answered /\ lastResp.status # 201) => ~lastResp.inserted

\* C10: for every election the buildLeaderboard output has totalVotes equal
\* to the sum of its entries' totalVotes, and both equal the number of
\* committed Vote rows of the election.
C10_Conservation ==
    \A e \in ExistingElections :
        LET lb == BuildLeaderboard(e)
        IN /\ lb.totalVotes = SumTotalVotes(lb.leaderboard)
           /\ lb.totalVotes = VoteRows(e)

\* The entries of candidate c in a leaderboard.
EntriesOf(board, c) == {i \in DOMAIN board : board[i].candidateId = c}

\* The boards buildLeaderboard has returned to publishResults, which
\* broadcasts them as results:published.
PublishedBoards ==
    {events[k].board : k \in {j \in DOMAIN events : events[j].name = "results:published"}}

\* C11: every candidate of an election appears exactly once in the output
\* of buildLeaderboard for that election, with totalVotes 0 when no Vote
\* references it; the boards publishResults got from it list every
\* candidate once as well.
C11_EveryCandidateOnce ==
    /\ \A e \in ExistingElections :
        LET board == BuildLeaderboard(e).leaderboard
        IN \A c \in {d \in Candidates : CandidateElection[d] = e} :
            /\ Cardinality(EntriesOf(board, c)) = 1
            /\ CountVotes(c, e) = 0 =>
                   \A i \in EntriesOf(board, c) : board[i].totalVotes = 0
    /\ \A lb \in PublishedBoards : \A c \in Candidates :
           Cardinality(EntriesOf(lb.leaderboard, c)) = 1

\* A board was published that lists a candidate without votes next to one
\* with votes.
C11_Witness ==
    \E lb \in PublishedBoards : \E i, j \in DOMAIN lb.leaderboard :
        lb.leaderboard[i].totalVotes = 0 /\ lb.leaderboard[j].totalVotes > 0

\* A query that runs buildLeaderboard on election e is answered.
BoardQuery(e) ==
    /\ GetLeaderboard(e) \/ GetResults(e)
    /\ lastQuery'.status = 200

\* C12: a query that runs buildLeaderboard changes neither the ledger nor
\* the election, and when the query answered before it ran buildLeaderboard
\* for the same election and no vote was committed since, both return the
\* same output: the same entries with the same counts in the same order.
C12_Idempotent ==
    [][\A e \in ExistingElections :
          BoardQuery(e) =>
              /\ ledger' = ledger
              /\ elections' = elections
              /\ (/\ lastQuery.pc = "done"
                  /\ lastQuery.status = 200
                  /\ lastQuery.election = e
                  /\ lastQuery.ledgerLen = Len(ledger))
                 => lastQuery'.body = lastQuery.body]_vars

\* The fractions a and b are equal.
SameFraction(a, b) == a.num * b.den = b.num * a.den

\* C13: in the output of buildLeaderboard the percent of every entry is its
\* totalVotes divided by the number of votes of the election, times 100,
\* and 0 for every entry when the election has no votes.
C13_PercentOfElectionVotes ==
    \A e \in ExistingElections :
        LET board == BuildLeaderboard(e).leaderboard
        IN \A i \in DOMAIN board :
            IF VoteRows(e) = 0
            THEN board[i].percent.num = 0
            ELSE SameFraction(board[i].percent,
                              [num |-> board[i].totalVotes * 100, den |-> VoteRows(e)])

\* No entry of the board is followed by one with more votes.
Descending(board) ==
    \A i, j \in DOMAIN board : i < j => board[i].totalVotes >= board[j].totalVotes

\* C14: the entries of the output of buildLeaderboard are ordered by
\* totalVotes descending, in every state of the ledger and in every board
\* publishResults got from it.
C14_SortedDescending ==
    /\ \A e \in ExistingElections : Descending(BuildLeaderboard(e).leaderboard)
    /\ \A lb \in PublishedBoards : Descending(lb.leaderboard)

\* A board was published in which the candidate the store returns last
\* comes first, with more votes than the next.
C14_Witness ==
    \E lb \in PublishedBoards :
        /\ lb.leaderboard[1].candidateId = natural[Len(natural)]
        /\ lb.leaderboard[1].totalVotes > lb.leaderboard[2].totalVotes

\* The lifecycle states in their order.
Rank(state) == IF state = "Open" THEN 0 ELSE IF state = "Closed" THEN 1 ELSE 2

C16_PublishedOnlyFromClosed ==
    [][\A e \in ExistingElections :
          (e \notin published /\ e \in published') =>
              LifecycleState(e) = "Closed"]_vars

\* The query answered last is a getResults for an existing election.
ResultsAnswered ==
    /\ lastQuery.pc = "done"
    /\ lastQuery.op = "getResults"
    /\ lastQuery.election \in ExistingElections

\* C17: getResults succeeds only for an election in the Published state;
\* for one that is Open, or Closed (its endDate passed, or ended
\* explicitly) and not published, it fails with ElectionNotCompleted.
C17_ResultsOnlyWhenPublished ==
    ResultsAnswered =>
        IF lastQuery.state = "Published"
        THEN lastQuery.status = 200
        ELSE /\ lastQuery.status = 400
             /\ lastQuery.message = "Election not completed yet"

\* The snapshot of a results body: the total, and the totalVotes of each
\* candidate, whatever the order of the entries.
Snapshot(body) ==
    [total |-> body.totalVotes,
     perCandidate |->
        {<<body.leaderboard[i].candidateId, body.leaderboard[i].totalVotes>> :
            i \in DOMAIN body.leaderboard}]

\* C18: once an election is Published, a getResults for it returns the
\* same snapshot as the getResults answered before it, whatever was done
\* in between.
C18_FrozenSnapshot ==
    [][\A e \in ExistingElections :
          (/\ GetResults(e)
           /\ lastQuery'.status = 200
           /\ ResultsAnswered
           /\ lastQuery.election = e
           /\ lastQuery.status = 200
           /\ lastQuery.state = "Published")
          => Snapshot(lastQuery'.body) = Snapshot(lastQuery.body)]_vars

\* C19: getLeaderboard succeeds in every lifecycle state of an existing
\* election, and when the castVote answered before it starts succeeded for
\* that election, the entry of the vote's candidate counts the vote.
C19_LeaderboardCountsVote ==
    [][\A e \in ExistingElections :
          GetLeaderboard(e) =>
              /\ lastQuery'.status = 200
              /\ (Answered /\ lastResp.status = 201 /\ lastResp.election = e)
                 => \E i \in DOMAIN lastQuery'.body.leaderboard :
                       /\ lastQuery'.body.leaderboard[i].candidateId
                              = lastResp.candidate
                       /\ lastQuery'.body.leaderboard[i].totalVotes >= 1]_vars

\* C20: a successful castVote emits exactly one leaderboard:update event to
\* the room of its election, and every socket joined to the room at that
\* moment receives it.
C20_OneUpdatePerVote ==
    [][\A r \in BagToSet(reqs) :
          CastAggregate(r, TRUE) =>
              /\ Len(events') = Len(events) + 1
              /\ events'[Len(events')].name = "leaderboard:update"
              /\ events'[Len(events')].room = r.election
              /\ \A s \in Sockets :
                     <<s, r.election>> \in joined => Len(events') \in received'[s]]_vars

\* The positions in events of the emits named n to the room of election e.
Emits(e, n) == {k \in DOMAIN events : events[k].room = e /\ events[k].name = n}

\* C21: for each election the results:published event is emitted at most
\* once, however many times publishResults is called.
C21_PublishedEventOnce ==
    \A e \in ExistingElections : Cardinality(Emits(e, "results:published")) <= 1

\* The names under which a leaderboard is broadcast: by publishResults,
\* and by castVote.
LeaderboardEvents == {"leaderboard:update", "leaderboardUpdate"}

\* C22: after results:published has been emitted for an election, no
\* leaderboard event is emitted to the room of that election again.
C22_NoUpdateAfterPublished ==
    \A k, j \in DOMAIN events :
        (/\ k < j
         /\ events[k].name = "results:published"
         /\ events[j].room = events[k].room)
        => events[j].name \notin LeaderboardEvents

\* Votes for candidate c of election e among the first n of the ledger.
CountUpTo(c, e, n) ==
    Cardinality({i \in 1..n : ledger[i].candidate = c /\ ledger[i].election = e})

\* The votes the event at position k carries for candidate c: 0 when its
\* board has no entry for c.
EventVotes(k, c) ==
    IF events[k].name = "leaderboardUpdate"
    THEN LET board == events[k].board
             at == {i \in DOMAIN board : board[i].candidate = c}
         IN IF at = {} THEN 0 ELSE board[CHOOSE i \in at : TRUE].votes
    ELSE LET board == events[k].board.leaderboard
             at == EntriesOf(board, c)
         IN IF at = {} THEN 0 ELSE board[CHOOSE i \in at : TRUE].totalVotes

\* The i-th vote of the ledger is committed, and a leaderboard event to the
\* room of its election carries a snapshot that counts it.
Observed(i) ==
    /\ Len(ledger) >= i
    /\ \E k \in DOMAIN events :
        /\ events[k].room = ledger[i].election
        /\ events[k].name \in LeaderboardEvents
        /\ EventVotes(k, ledger[i].candidate)
               >= CountUpTo(ledger[i].candidate, ledger[i].election, i)

\* C23: every committed Vote is eventually followed by a leaderboard event
\* to the room of its election whose snapshot counts that vote.
C23_EveryVoteObserved ==
    \A i \in 1..MaxCasts : (Len(ledger) >= i) ~> Observed(i)

\* C24: the tally a pull returns while castVote requests commit is the
\* tally of the ledger at one moment between the start and the end of the
\* pull: the counts of all candidates over one and the same prefix of the
\* ledger.
C24_PullNotTorn ==
    pull.pc = "done" =>
        \E n \in pull.startLen..pull.endLen :
            \A i \in DOMAIN pull.body.leaderboard :
                pull.body.leaderboard[i].totalVotes
                    = CountUpTo(pull.body.leaderboard[i].candidateId,
                                pull.election, n)

\* C25: the ledger is append-only: no step of castVote, of publishResults
\* or of the lifecycle removes a committed Vote or changes its voter,
\* election or candidate.  (The queries write no document.)
C25_AppendOnly ==
    [][/\ Len(ledger') >= Len(ledger)
       /\ SubSeq(ledger', 1, Len(ledger)) = ledger]_vars

\* Two votes are committed and publishResults has published the election.
C25_Witness ==
    /\ Len(ledger) = 2
    /\ \E e \in ExistingElections :
          e \in published /\ lastPub.pc = "done" /\ lastPub.status = 200

\* C26: the board a successful castVote broadcasts is what buildLeaderboard
\* returns for the ledger at that moment: an entry for every candidate of
\* the election, those without votes included, with the same totals.
C26_BroadcastIsBuildLeaderboard ==
    [][\A r \in BagToSet(reqs) :
          CastAggregate(r, TRUE) =>
              LET board == events'[Len(events')].board
                  lb == BuildLeaderboard(r.election).leaderboard
              IN /\ Len(board) = Len(lb)
                 /\ \A i \in DOMAIN lb :
                        \E j \in DOMAIN board :
                            /\ board[j].candidate = lb[i].candidateId
                            /\ board[j].votes = lb[i].totalVotes]_vars

\* C27: publishedAt is stamped at the transition to Published and never
\* changes afterwards: an election that is Published has a publishedAt,
\* and no step on a Published election changes its state or its
\* publishedAt.
C27_PublishedAtStampedOnce ==
    [][\A e \in ExistingElections :
          /\ e \in published' => PublishedAt(e)' # Null
          /\ e \in published =>
                 /\ PublishedAt(e)' = PublishedAt(e)
                 /\ LifecycleState(e)' = LifecycleState(e)]_vars

\* C28: a publishResults that answers an error leaves the election as it
\* was; equivalently, an election that has become Published has had its
\* results:published event emitted once no publishResults for it is under
\* way any more.
C28_PublishedMeansEmitted ==
    \A e \in ExistingElections :
        (/\ e \in published
         /\ \A p \in BagToSet(pubs) : p.election # e)
        => Emits(e, "results:published") # {}

\* C29: a castVote that fails emits no event: a step that emits from the
\* vote path is the step of a castVote that has committed its Vote and
\* answers success, and the event goes to the room of its election.
C29_FailedCastEmitsNothing ==
    [][(/\ Len(events') > Len(events)
        /\ events'[Len(events')].name = "leaderboardUpdate")
       => /\ lastResp'.pc = "done"
          /\ lastResp'.status = 201
          /\ lastResp'.inserted
          /\ lastResp'.election = events'[Len(events')].room
          /\ HasVoted(lastResp'.voter, lastResp'.election)]_vars

\* A castVote has failed as a duplicate after the one event of the vote
\* path so far was emitted.
C29_Witness ==
    /\ Answered
    /\ lastResp.status = 400
    /\ Cardinality({k \in DOMAIN events : events[k].name = "leaderboardUpdate"}) = 1

\* The votes a board of the vote path carries in all.
RECURSIVE SumVotes(_)
SumVotes(board) ==
    IF board = <<>> THEN 0 ELSE Head(board).votes + SumVotes(Tail(board))

\* C30: under concurrent castVote calls the total vote count carried by the
\* successive events of the vote path to a room never decreases: no stale
\* board is emitted after a fresher one, so that the last one emitted is
\* the one of the full ledger.
C30_TotalsNeverDecrease ==
    \A k, j \in DOMAIN events :
        (/\ k < j
         /\ events[k].room = events[j].room
         /\ events[k].name = "leaderboardUpdate"
         /\ events[j].name = "leaderboardUpdate")
        => SumVotes(events[k].board) <= SumVotes(events[j].board)

====
